---------------------------- MODULE Spec2Model ----------------------------
(***************************************************************************)
(* Battery state / daily-cycle model of utils/battery.py, and the price   *)
(* functions of utils/price_data.py.                                       *)
(*                                                                         *)
(* Numbers.  The program computes with Python floats (binary floating      *)
(* point, round to nearest, ties to even).  The model keeps that           *)
(* arithmetic at a reduced width: a number is an integer count of units    *)
(* of 2^-FracBits, and it is representable when it has at most Precision   *)
(* significant bits.  Every arithmetic result is rounded to the nearest    *)
(* representable number, ties to even, exactly as the hardware does with   *)
(* 53 bits.                                                                *)
(***************************************************************************)
EXTENDS Integers, Sequences, FiniteSets, TLC

\* ------------------------------------------------------------------ bounds
Precision == 3
FracBits == 5
MaxDay == 1
MaxAmount == 2
MaxNegAmount == 1
MaxForecastHours == 38
MaxSeed == 1

\* ------------------------------------------------------- float arithmetic
Scale == 2 ^ FracBits

Abs(x) == IF x < 0 THEN -x ELSE x

RECURSIVE Expo(_, _)
\* the exponent e >= 0 with num/den < 2^Precision * 2^e, smallest such
Expo(num, den) ==
    IF num < den * (2 ^ Precision) THEN 0 ELSE 1 + Expo(num, 2 * den)

\* nearest integer to n/d, ties to even (n >= 0, d > 0)
RNE(n, d) ==
    LET q == n \div d
        r == n % d
    IN  IF 2 * r < d THEN q
        ELSE IF 2 * r > d THEN q + 1
        ELSE IF q % 2 = 0 THEN q ELSE q + 1

\* num/den (in units of 2^-FracBits) rounded to Precision significant bits,
\* for num >= 0
RoundNat(num, den) ==
    LET e == Expo(num, den)
    IN  RNE(num, den * (2 ^ e)) * (2 ^ e)

\* the roundings of the integers met most, computed once
TableMax == 8 * Scale
RoundTable == [n \in 0 .. TableMax |-> RoundNat(n, 1)]

Round(num, den) ==
    LET m == Abs(num)
        v == IF den = 1 /\ m <= TableMax THEN RoundTable[m] ELSE RoundNat(m, den)
    IN  IF num < 0 THEN -v ELSE v

FAdd(x, y) == Round(x + y, 1)
FSub(x, y) == Round(x - y, 1)
FMul(x, y) == Round(x * y, Scale)
\* x / y for y > 0
FDiv(x, y) == Round(x * Scale, y)
\* the float of an integer, the float of the decimal literal n/d
FromInt(i) == Round(i * Scale, 1)
Lit(n, d) == Round(n * Scale, d)

\* ------------------------------------------------------------------ state
VARIABLES
    capacity, min_soc, max_soc, charge_rate,      \* constructor arguments
    min_daily_cycles, max_daily_cycles,
    acquisition,                                  \* what get_ecactus_client() did at construction
    ecactus_client,                               \* TRUE: a provider, FALSE: None
    current_soc, current_power,                   \* self.current_soc, self._current_power
    daily_cycles, last_cycle_reset,               \* self._daily_cycles, self._last_cycle_reset
    op, amount, ret, why,                         \* the last call: name, argument, result, branch taken
    pre,                                          \* the fields the last call started from, the date it read
                                                  \* first and the status its first refresh was answered
    prev,                                         \* the fields before the charge(a) that the last call, a
                                                  \* discharge(a), followed at once, both returning True
    refused,                                      \* least |amount| refused for the cycle maximum since the last reset
    api_called,                                   \* a provider method has been called
    seen,                                         \* what the provider answered to the last refresh of the last call
    neg_seen,                                     \* a negative amount has been passed
    price_op, now, forecast_hours, random_seed,   \* a call of utils/price_data.py: name, clock, argument, random seed
    prices, available                             \* what get_day_ahead_prices / is_prices_available_for_tomorrow returned

cfgvars == <<capacity, min_soc, max_soc, charge_rate, min_daily_cycles,
             max_daily_cycles, acquisition, ecactus_client>>
batvars == <<current_soc, current_power, daily_cycles, last_cycle_reset>>
histvars == <<op, amount, ret, why, pre, prev, refused, api_called, seen, neg_seen>>
pricevars == <<price_op, now, forecast_hours, random_seed, prices, available>>
vars == <<cfgvars, batvars, histvars, pricevars>>

NoRefusal == 0 - 1
NoCharge == [valid |-> FALSE, soc |-> 0, cycles |-> 0, reset |-> 0]

Amounts == (0 - MaxNegAmount) .. MaxAmount


\* ------------------------------------------------------- the provider
\* get_battery_status() answers None (NoStatus) or a status; the values are
\* the provider's own and need not lie in [min_soc, max_soc]
NoStatus == [present |-> FALSE, current_soc |-> 0, current_power |-> 0]
Statuses == {NoStatus,
             [present |-> TRUE, current_soc |-> Lit(5, 4), current_power |-> FromInt(2)]}

\* the battery's mutable fields as one value, at the start of a call (api
\* and seen record the calls made to the provider)
Self == [soc |-> current_soc, power |-> current_power,
         cycles |-> daily_cycles, reset |-> last_cycle_reset,
         api |-> api_called, seen |-> NoStatus]

\* get_ecactus_client(): a client, or ValueError
Acquisitions == {"client", "ValueError"}

get_ecactus_client(outcome) == outcome

\* __init__: try: self.ecactus_client = get_ecactus_client()
\*           except ValueError: self.ecactus_client = None
init_client(outcome) == get_ecactus_client(outcome) # "ValueError"

\* ------------------------------------------------------- Battery methods
\* Each method is a function of the battery's fields b (see Self), its
\* arguments, and what the clock and the provider answer during the call.

\* mutant: the refresh asks the provider without looking at ecactus_client
update_from_api_NoGuard(b, status) ==
    IF status.present
    THEN [b EXCEPT !.soc = status.current_soc,
                   !.power = status.current_power,
                   !.api = TRUE, !.seen = status]
    ELSE [b EXCEPT !.api = TRUE, !.seen = status]

\* mutant: the refresh clamps the reported SoC to [min_soc, max_soc]
update_from_api_Clamps(b, status) ==
    IF ecactus_client
    THEN IF status.present
         THEN [b EXCEPT !.soc = IF status.current_soc > max_soc THEN max_soc
                                ELSE IF status.current_soc < min_soc THEN min_soc
                                ELSE status.current_soc,
                        !.power = status.current_power,
                        !.api = TRUE, !.seen = status]
         ELSE [b EXCEPT !.api = TRUE, !.seen = status]
    ELSE b

update_from_api(b, status) ==
    IF ecactus_client
    THEN IF status.present
         THEN [b EXCEPT !.soc = status.current_soc,
                        !.power = status.current_power,
                        !.api = TRUE, !.seen = status]
         ELSE [b EXCEPT !.api = TRUE, !.seen = status]
    ELSE b

\* mutant: the reset compares with >= and so resets on the same day too
reset_daily_cycles_if_needed_SameDay(b, current_date) ==
    IF current_date >= b.reset
    THEN [b EXCEPT !.cycles = 0, !.reset = current_date]
    ELSE b

reset_daily_cycles_if_needed(b, current_date) ==
    IF current_date > b.reset
    THEN [b EXCEPT !.cycles = 0, !.reset = current_date]
    ELSE b

\* mutant: the usage is added with its sign (abs() forgotten)
update_cycles_Signed(b, energy_amount, current_date) ==
    LET r == reset_daily_cycles_if_needed(b, current_date)
        cycle_fraction == FDiv(FromInt(energy_amount), FromInt(capacity))
    IN  [r EXCEPT !.cycles = FAdd(r.cycles, cycle_fraction)]

update_cycles(b, energy_amount, current_date) ==
    LET r == reset_daily_cycles_if_needed(b, current_date)
        cycle_fraction == FDiv(FromInt(Abs(energy_amount)), FromInt(capacity))
    IN  [r EXCEPT !.cycles = FAdd(r.cycles, cycle_fraction)]

\* mutant: the budget check compares with the maximum only
can_complete_cycles_NoFloor(b, energy_amount, current_date) ==
    LET r == reset_daily_cycles_if_needed(b, current_date)
        new_cycles == FAdd(r.cycles,
                           FDiv(FromInt(Abs(energy_amount)), FromInt(capacity)))
    IN  [b |-> r,
         ret |-> new_cycles <= max_daily_cycles,
         why |-> IF new_cycles > max_daily_cycles THEN "max" ELSE "ok"]

can_complete_cycles(b, energy_amount, current_date) ==
    LET r == reset_daily_cycles_if_needed(b, current_date)
        new_cycles == FAdd(r.cycles,
                           FDiv(FromInt(Abs(energy_amount)), FromInt(capacity)))
    IN  [b |-> r,
         ret |-> min_daily_cycles <= new_cycles /\ new_cycles <= max_daily_cycles,
         why |-> IF new_cycles > max_daily_cycles THEN "max"
                 ELSE IF new_cycles < min_daily_cycles THEN "min" ELSE "ok"]

\* mutant: the remaining budget is computed without the lazy reset
get_remaining_cycles_NoReset(b, current_date) ==
    [b |-> b, ret |-> FSub(max_daily_cycles, b.cycles), why |-> "ok"]

get_remaining_cycles(b, current_date) ==
    LET r == reset_daily_cycles_if_needed(b, current_date)
    IN  [b |-> r, ret |-> FSub(max_daily_cycles, r.cycles), why |-> "ok"]

\* mutant: the SoC check forgets the amount
can_charge_IgnoresAmount(b, amt, status) ==
    LET r == update_from_api(b, status)
    IN  [b |-> r, ret |-> r.soc <= max_soc, why |-> "ok"]

can_charge(b, amt, status) ==
    LET r == update_from_api(b, status)
    IN  [b |-> r,
         ret |-> FAdd(r.soc, FDiv(FromInt(amt), FromInt(capacity))) <= max_soc,
         why |-> "ok"]

\* mutant: the SoC check takes the amount out of current_soc (-= for -)
can_discharge_Applies(b, amt, status) ==
    LET r == update_from_api(b, status)
        soc == FSub(r.soc, FDiv(FromInt(amt), FromInt(capacity)))
    IN  [b |-> [r EXCEPT !.soc = soc], ret |-> soc >= min_soc, why |-> "ok"]

\* mutant: the SoC check compares with 0 instead of min_soc
can_discharge_ZeroFloor(b, amt, status) ==
    LET r == update_from_api(b, status)
    IN  [b |-> r,
         ret |-> FSub(r.soc, FDiv(FromInt(amt), FromInt(capacity))) >= 0,
         why |-> "ok"]

can_discharge(b, amt, status) ==
    LET r == update_from_api(b, status)
    IN  [b |-> r,
         ret |-> FSub(r.soc, FDiv(FromInt(amt), FromInt(capacity))) >= min_soc,
         why |-> "ok"]

get_available_capacity(b, status) ==
    LET r == update_from_api(b, status)
    IN  [b |-> r, ret |-> FMul(FromInt(capacity), FSub(max_soc, r.soc)), why |-> "ok"]

get_current_energy(b, status) ==
    LET r == update_from_api(b, status)
    IN  [b |-> r, ret |-> FMul(FromInt(capacity), r.soc), why |-> "ok"]

\* charge(amount): status1 answers the refresh of can_charge, date1 is the
\* clock read by can_complete_cycles, success answers update_battery_settings,
\* date2 is the clock read by _update_cycles, status2 answers the last refresh
\* mutant: charge asks can_charge only, not can_complete_cycles
charge_NoBudgetCheck(b, amt, status1, date1, success, date2, status2) ==
    LET c1 == can_charge(b, amt, status1)
        c2 == can_complete_cycles(c1.b, amt, date1)
    IN  IF ~c1.ret THEN [b |-> c1.b, ret |-> FALSE, why |-> "soc"]
        ELSE IF ecactus_client
        THEN IF success
             THEN [b |-> update_from_api(
                           update_cycles([c2.b EXCEPT !.api = TRUE], amt, date2),
                           status2),
                   ret |-> TRUE, why |-> "ok"]
             ELSE [b |-> [c2.b EXCEPT !.api = TRUE], ret |-> FALSE, why |-> "provider"]
        ELSE [b |-> update_cycles(
                      [c2.b EXCEPT
                          !.soc = FAdd(c2.b.soc, FDiv(FromInt(amt), FromInt(capacity))),
                          !.power = FromInt(amt)],
                      amt, date2),
              ret |-> TRUE, why |-> "ok"]

\* mutant: charge asks can_complete_cycles before can_charge
charge_BudgetCheckFirst(b, amt, status1, date1, success, date2, status2) ==
    LET c0 == can_complete_cycles(b, amt, date1)
        c1 == can_charge(c0.b, amt, status1)
        c2 == [b |-> c1.b, ret |-> c0.ret, why |-> c0.why]
    IN  IF ~c2.ret THEN [b |-> c0.b, ret |-> FALSE, why |-> c2.why]
        ELSE IF ~c1.ret THEN [b |-> c1.b, ret |-> FALSE, why |-> "soc"]
        ELSE IF ecactus_client
        THEN IF success
             THEN [b |-> update_from_api(
                           update_cycles([c2.b EXCEPT !.api = TRUE], amt, date2),
                           status2),
                   ret |-> TRUE, why |-> "ok"]
             ELSE [b |-> [c2.b EXCEPT !.api = TRUE], ret |-> FALSE, why |-> "provider"]
        ELSE [b |-> update_cycles(
                      [c2.b EXCEPT
                          !.soc = FAdd(c2.b.soc, FDiv(FromInt(amt), FromInt(capacity))),
                          !.power = FromInt(amt)],
                      amt, date2),
              ret |-> TRUE, why |-> "ok"]

charge(b, amt, status1, date1, success, date2, status2) ==
    LET c1 == can_charge(b, amt, status1)
        c2 == can_complete_cycles(c1.b, amt, date1)
    IN  IF ~c1.ret THEN [b |-> c1.b, ret |-> FALSE, why |-> "soc"]
        ELSE IF ~c2.ret THEN [b |-> c2.b, ret |-> FALSE, why |-> c2.why]
        ELSE IF ecactus_client
        THEN IF success
             THEN [b |-> update_from_api(
                           update_cycles([c2.b EXCEPT !.api = TRUE], amt, date2),
                           status2),
                   ret |-> TRUE, why |-> "ok"]
             ELSE [b |-> [c2.b EXCEPT !.api = TRUE], ret |-> FALSE, why |-> "provider"]
        ELSE [b |-> update_cycles(
                      [c2.b EXCEPT
                          !.soc = FAdd(c2.b.soc, FDiv(FromInt(amt), FromInt(capacity))),
                          !.power = FromInt(amt)],
                      amt, date2),
              ret |-> TRUE, why |-> "ok"]

\* mutant: discharge asks can_discharge only, not can_complete_cycles
discharge_NoBudgetCheck(b, amt, status1, date1, success, date2, status2) ==
    LET c1 == can_discharge(b, amt, status1)
        c2 == can_complete_cycles(c1.b, 0 - amt, date1)
    IN  IF ~c1.ret THEN [b |-> c1.b, ret |-> FALSE, why |-> "soc"]
        ELSE IF ecactus_client
        THEN IF success
             THEN [b |-> update_from_api(
                           update_cycles([c2.b EXCEPT !.api = TRUE], 0 - amt, date2),
                           status2),
                   ret |-> TRUE, why |-> "ok"]
             ELSE [b |-> [c2.b EXCEPT !.api = TRUE], ret |-> FALSE, why |-> "provider"]
        ELSE [b |-> update_cycles(
                      [c2.b EXCEPT
                          !.soc = FSub(c2.b.soc, FDiv(FromInt(amt), FromInt(capacity))),
                          !.power = FromInt(0 - amt)],
                      0 - amt, date2),
              ret |-> TRUE, why |-> "ok"]

\* mutant: discharge records the usage before the provider has answered
discharge_RecordsBeforeProvider(b, amt, status1, date1, success, date2, status2) ==
    LET c1 == can_discharge(b, amt, status1)
        c2 == can_complete_cycles(c1.b, 0 - amt, date1)
    IN  IF ~c1.ret THEN [b |-> c1.b, ret |-> FALSE, why |-> "soc"]
        ELSE IF ~c2.ret THEN [b |-> c2.b, ret |-> FALSE, why |-> c2.why]
        ELSE IF ecactus_client
        THEN IF success
             THEN [b |-> update_from_api(
                           update_cycles([c2.b EXCEPT !.api = TRUE], 0 - amt, date2),
                           status2),
                   ret |-> TRUE, why |-> "ok"]
             ELSE [b |-> update_cycles([c2.b EXCEPT !.api = TRUE], 0 - amt, date2),
                   ret |-> FALSE, why |-> "provider"]
        ELSE [b |-> update_cycles(
                      [c2.b EXCEPT
                          !.soc = FSub(c2.b.soc, FDiv(FromInt(amt), FromInt(capacity))),
                          !.power = FromInt(0 - amt)],
                      0 - amt, date2),
              ret |-> TRUE, why |-> "ok"]

\* mutant: discharge adds the amount to current_soc (+= for -=)
discharge_AddsSoc(b, amt, status1, date1, success, date2, status2) ==
    LET c1 == can_discharge(b, amt, status1)
        c2 == can_complete_cycles(c1.b, 0 - amt, date1)
    IN  IF ~c1.ret THEN [b |-> c1.b, ret |-> FALSE, why |-> "soc"]
        ELSE IF ~c2.ret THEN [b |-> c2.b, ret |-> FALSE, why |-> c2.why]
        ELSE IF ecactus_client
        THEN IF success
             THEN [b |-> update_from_api(
                           update_cycles([c2.b EXCEPT !.api = TRUE], 0 - amt, date2),
                           status2),
                   ret |-> TRUE, why |-> "ok"]
             ELSE [b |-> [c2.b EXCEPT !.api = TRUE], ret |-> FALSE, why |-> "provider"]
        ELSE [b |-> update_cycles(
                      [c2.b EXCEPT
                          !.soc = FAdd(c2.b.soc, FDiv(FromInt(amt), FromInt(capacity))),
                          !.power = FromInt(0 - amt)],
                      0 - amt, date2),
              ret |-> TRUE, why |-> "ok"]

\* mutant: discharge stores the amount as power without the minus sign
discharge_KeepsPowerSign(b, amt, status1, date1, success, date2, status2) ==
    LET c1 == can_discharge(b, amt, status1)
        c2 == can_complete_cycles(c1.b, 0 - amt, date1)
    IN  IF ~c1.ret THEN [b |-> c1.b, ret |-> FALSE, why |-> "soc"]
        ELSE IF ~c2.ret THEN [b |-> c2.b, ret |-> FALSE, why |-> c2.why]
        ELSE IF ecactus_client
        THEN IF success
             THEN [b |-> update_from_api(
                           update_cycles([c2.b EXCEPT !.api = TRUE], 0 - amt, date2),
                           status2),
                   ret |-> TRUE, why |-> "ok"]
             ELSE [b |-> [c2.b EXCEPT !.api = TRUE], ret |-> FALSE, why |-> "provider"]
        ELSE [b |-> update_cycles(
                      [c2.b EXCEPT
                          !.soc = FSub(c2.b.soc, FDiv(FromInt(amt), FromInt(capacity))),
                          !.power = FromInt(amt)],
                      0 - amt, date2),
              ret |-> TRUE, why |-> "ok"]

discharge(b, amt, status1, date1, success, date2, status2) ==
    LET c1 == can_discharge(b, amt, status1)
        c2 == can_complete_cycles(c1.b, 0 - amt, date1)
    IN  IF ~c1.ret THEN [b |-> c1.b, ret |-> FALSE, why |-> "soc"]
        ELSE IF ~c2.ret THEN [b |-> c2.b, ret |-> FALSE, why |-> c2.why]
        ELSE IF ecactus_client
        THEN IF success
             THEN [b |-> update_from_api(
                           update_cycles([c2.b EXCEPT !.api = TRUE], 0 - amt, date2),
                           status2),
                   ret |-> TRUE, why |-> "ok"]
             ELSE [b |-> [c2.b EXCEPT !.api = TRUE], ret |-> FALSE, why |-> "provider"]
        ELSE [b |-> update_cycles(
                      [c2.b EXCEPT
                          !.soc = FSub(c2.b.soc, FDiv(FromInt(amt), FromInt(capacity))),
                          !.power = FromInt(0 - amt)],
                      0 - amt, date2),
              ret |-> TRUE, why |-> "ok"]

\* ------------------------------------------------- consumption functions
yearly_consumption == FromInt(5475)
surcharge_rate_arg == Lit(50, 1000)

\* round(x, 3): x to three decimals (ties to even), as a float again
Round3(x) ==
    LET m == RNE(Abs(x) * 1000, Scale)
    IN  IF x < 0 THEN 0 - Lit(m, 1000) ELSE Lit(m, 1000)

surcharge_rate == Round3(surcharge_rate_arg)

monthly_distribution ==
    [m \in 1 .. 12 |->
        CASE m = 1 -> Lit(120, 100) [] m = 2 -> Lit(115, 100)
          [] m = 3 -> Lit(100, 100) [] m = 4 -> Lit(90, 100)
          [] m = 5 -> Lit(80, 100)  [] m = 6 -> Lit(70, 100)
          [] m = 7 -> Lit(70, 100)  [] m = 8 -> Lit(70, 100)
          [] m = 9 -> Lit(80, 100)  [] m = 10 -> Lit(90, 100)
          [] m = 11 -> Lit(100, 100) [] OTHER -> Lit(115, 100)]

\* a date as the functions use it: its month and its weekday (0 = Monday);
\* the timestamps the functions are called with, as <<hour, date>>
Winter == [month |-> 1, weekday |-> 2]
Summer == [month |-> 7, weekday |-> 6]
Dates == {Winter, Summer}
Timestamps == {<<3, Winter>>, <<20, Winter>>, <<11, Summer>>}
Months == {1, 13}
Hours == {9}
BasePrices == {Lit(20, 100)}

get_seasonal_factor(month) ==
    IF month \in DOMAIN monthly_distribution
    THEN monthly_distribution[month] ELSE FromInt(1)

get_daily_consumption_for_date(date) ==
    LET yearly_daily_avg == FDiv(yearly_consumption, FromInt(365))
        seasonal_factor == get_seasonal_factor(date.month)
    IN  FMul(yearly_daily_avg, seasonal_factor)

get_hourly_consumption(hour, date) ==
    LET daily == FDiv(get_daily_consumption_for_date(date), FromInt(24))
        is_weekend == date.weekday >= 5
    IN  IF ~is_weekend
        THEN IF 7 <= hour /\ hour <= 9 THEN FMul(daily, FromInt(2))
             ELSE IF 17 <= hour /\ hour <= 22 THEN FMul(daily, Lit(25, 10))
             ELSE IF 0 <= hour /\ hour <= 6 THEN FMul(daily, Lit(3, 10))
             ELSE FMul(daily, Lit(8, 10))
        ELSE IF 9 <= hour /\ hour <= 12 THEN FMul(daily, Lit(18, 10))
             ELSE IF 13 <= hour /\ hour <= 22 THEN FMul(daily, Lit(15, 10))
             ELSE FMul(daily, Lit(4, 10))

get_consumption_confidence_intervals(date) ==
    LET base_consumption == get_daily_consumption_for_date(date)
        std_dev == FMul(base_consumption, Lit(15, 100))
    IN  [mean |-> base_consumption,
         lower_95 |-> FSub(base_consumption, FMul(Lit(196, 100), std_dev)),
         upper_95 |-> FAdd(base_consumption, FMul(Lit(196, 100), std_dev))]

get_effective_price(base_price, hour) == Round3(FAdd(base_price, surcharge_rate))

FMin(x, y) == IF x <= y THEN x ELSE y

\* get_current_power(): status1 answers get_battery_status, hour and date are
\* the clock's, status2 answers the refresh of get_available_capacity
get_current_power(b, status1, hour, date, status2) ==
    IF ecactus_client /\ status1.present
    THEN [b |-> [b EXCEPT !.api = TRUE], ret |-> status1.current_power, why |-> "ok"]
    ELSE
    LET b1 == IF ecactus_client THEN [b EXCEPT !.api = TRUE] ELSE b
        consumption == get_hourly_consumption(hour, date)
        avail == get_available_capacity(b1, status2)
        rate == FromInt(charge_rate)
    IN  IF b1.soc < Lit(3, 10)
        THEN [b |-> avail.b, ret |-> FMin(rate, avail.ret), why |-> "ok"]
        ELSE IF b1.soc > Lit(8, 10)
        THEN [b |-> b1, ret |-> 0 - FMin(rate, consumption), why |-> "ok"]
        ELSE IF 0 <= hour /\ hour < 6
        THEN [b |-> avail.b, ret |-> FMin(FMul(rate, Lit(8, 10)), avail.ret), why |-> "ok"]
        ELSE IF 10 <= hour /\ hour < 16
        THEN [b |-> b1, ret |-> 0 - FMin(FMul(rate, Lit(6, 10)), consumption), why |-> "ok"]
        ELSE [b |-> b1, ret |-> 0 - FMin(FMul(rate, Lit(3, 10)), consumption), why |-> "ok"]

\* ----------------------------------------------------- utils/price_data.py
\* A datetime is [day, hour, minute, second, microsecond]; day counts days and
\* day % 7 is the weekday (0 = Monday).
Midnight == [day |-> 0, hour |-> 0, minute |-> 0, second |-> 0, microsecond |-> 0]

\* what datetime.now() can answer: a Friday, any hour, the first or
\* the last minute and second of it, on the second or half a second past it
StartDays == {4}
Clock ==
    [day : StartDays, hour : 0 .. 23, minute : {0, 59}, second : {0, 59},
     microsecond : {0, 500000}]

weekday(t) == t.day % 7

\* t.replace(minute=0, second=0, microsecond=0)
truncate_to_hour(t) == [t EXCEPT !.minute = 0, !.second = 0, !.microsecond = 0]

\* now.replace(hour=13, minute=0, second=0, microsecond=0)
publication_time(t) ==
    [t EXCEPT !.hour = 13, !.minute = 0, !.second = 0, !.microsecond = 0]

\* t >= u, field by field as datetime compares
DatetimeGE(t, u) ==
    LET a == <<t.day, t.hour, t.minute, t.second, t.microsecond>>
        b == <<u.day, u.hour, u.minute, u.second, u.microsecond>>
    IN  \/ a = b
        \/ \E i \in 1 .. 5 : a[i] > b[i] /\ \A j \in 1 .. (i - 1) : a[j] = b[j]

\* the i-th element (from 0) of pd.date_range(start, periods, freq='h')
date_range_at(start, i) ==
    [start EXCEPT !.day = start.day + ((start.hour + i) \div 24),
                  !.hour = (start.hour + i) % 24]

\* (date - now).total_seconds(), in half seconds
HalfSeconds(t) ==
    2 * (((t.day * 24 + t.hour) * 60 + t.minute) * 60 + t.second)
        + (t.microsecond \div 500000)
total_seconds(date, t) == Lit(HalfSeconds(date) - HalfSeconds(t), 2)

FMax(x, y) == IF x >= y THEN x ELSE y

\* np.exp(-y) for a float y >= 0: the series 1 - y + y^2/2 - ... summed in
\* millionths, then rounded to a float
ExpUnit == 1000000
ExpTerms == 14
RECURSIVE ExpSeries(_, _, _)
ExpSeries(y, k, term) ==
    IF k > ExpTerms \/ term = 0 THEN 0
    ELSE LET next == (term * y) \div (Scale * k)
         IN  (IF k % 2 = 1 THEN 0 - next ELSE next) + ExpSeries(y, k + 1, next)
ExpNeg(y) == Round((ExpUnit + ExpSeries(y, 1, ExpUnit)) * Scale, ExpUnit)

\* np.sin(2 * np.pi * hour / 24) for hour in 0 .. 23, from the sines of
\* 0, 15, ..., 90 degrees in millionths
SineTable == <<0, 258819, 500000, 707107, 866025, 965926, 1000000>>
Sin24(hour) ==
    LET h == hour % 12
        v == Lit(SineTable[(IF h <= 6 THEN h ELSE 12 - h) + 1], 1000000)
    IN  IF hour < 12 THEN v ELSE 0 - v

\* the random stream: np.random.uniform(low, high) is low + (high - low) * u
\* for the next u in [0, 1), np.random.normal(0, scale) is scale * z for the
\* next standard normal z; a seed fixes both sequences
UniformDraws == <<Lit(0, 1), Lit(1, 2), Lit(7, 8)>>
NormalDraws == <<FromInt(0), FromInt(0 - 12), FromInt(2)>>
Seeds == 0 .. MaxSeed
random_uniform(low, high, seed, i) ==
    FAdd(low, FMul(FSub(high, low), UniformDraws[((seed + i) % 3) + 1]))
random_normal(scale, seed, i) ==
    FMul(scale, NormalDraws[((seed + (i \div 2)) % 3) + 1])

\* base_price = 0.22 (euro per kWh)
base_price_kwh == Lit(22, 100)
peak_hours == {7, 8, 9, 17, 18, 19, 20}
shoulder_hours == {10, 11, 12, 13, 14, 15, 16}

\* mutant: the bounds of the clamp are swapped
bounded_forecast_hours_Swapped(hours) ==
    LET m == IF hours >= 36 THEN hours ELSE 36
    IN  IF 12 <= m THEN 12 ELSE m

\* forecast_hours = max(12, min(forecast_hours, 36))
bounded_forecast_hours(hours) ==
    LET m == IF hours <= 36 THEN hours ELSE 36
    IN  IF 12 >= m THEN 12 ELSE m

\* one pass of the loop: the price appended for the i-th date (from 0)
price_for(date, t, seed, i) ==
    LET hour == date.hour
        hours_ahead == FMax(0, FDiv(total_seconds(date, t), FromInt(3600)))
        uncertainty_factor ==
            FDiv(Lit(2, 10),
                 FAdd(FromInt(1), ExpNeg(FDiv(hours_ahead, FromInt(24)))))
        weekly_factor ==
            FAdd(FromInt(1),
                 IF weekday(date) < 5 THEN Lit(5, 100) ELSE 0 - Lit(5, 100))
        daily_factor == FMul(Sin24(hour), Lit(1, 10))
        u == IF hour \in peak_hours
             THEN random_uniform(Lit(3, 10), Lit(5, 10), seed, i)
             ELSE IF hour \in shoulder_hours
             THEN random_uniform(Lit(1, 10), Lit(3, 10), seed, i)
             ELSE random_uniform(0 - Lit(3, 10), 0, seed, i)
        price == FMul(FMul(base_price_kwh, weekly_factor),
                      FAdd(FAdd(FromInt(1), u), daily_factor))
        scaled == FMul(price,
                       FAdd(FromInt(1),
                            random_normal(FMax(Lit(1, 1000), uncertainty_factor),
                                          seed, i)))
    IN  FMax(Lit(5, 100), scaled)

\* the Series returned: <<[date, price], ...>> in index order
get_day_ahead_prices(hours, t, seed) ==
    LET periods == bounded_forecast_hours(hours)
        current_hour == truncate_to_hour(t)
        start_date == current_hour
    IN  [i \in 1 .. periods |->
            LET date == date_range_at(start_date, i - 1)
            IN  [date |-> date, price |-> price_for(date, t, seed, i - 1)]]

\* mutant: the comparison with the publication time is strict
is_prices_available_for_tomorrow_Strict(t) ==
    DatetimeGE(t, publication_time(t)) /\ t # publication_time(t)

is_prices_available_for_tomorrow(t) == DatetimeGE(t, publication_time(t))

\* ------------------------------------------------------------ construction
\* Battery(capacity, min_soc, max_soc, charge_rate, min_daily_cycles=...,
\* max_daily_cycles=...): the arguments the model is run with
Configs ==
    {[capacity |-> 5, min_soc |-> Lit(0, 1), max_soc |-> Lit(1, 1),
      min_daily_cycles |-> Lit(0, 1), max_daily_cycles |-> Lit(75, 100)],
     [capacity |-> 4, min_soc |-> Lit(1, 10), max_soc |-> Lit(1, 1),
      min_daily_cycles |-> Lit(5, 10), max_daily_cycles |-> Lit(15, 10)],
     [capacity |-> 4, min_soc |-> Lit(1, 10), max_soc |-> Lit(9, 10),
      min_daily_cycles |-> Lit(5, 10), max_daily_cycles |-> Lit(15, 10)]}

BatteryInit ==
    /\ \E c \in Configs :
          /\ capacity = c.capacity
          /\ min_soc = c.min_soc
          /\ max_soc = c.max_soc
          /\ min_daily_cycles = c.min_daily_cycles
          /\ max_daily_cycles = c.max_daily_cycles
    /\ charge_rate = 3
    /\ current_soc = Lit(5, 10)
    /\ current_power = 0
    /\ daily_cycles = 0
    /\ last_cycle_reset = 0
    /\ acquisition \in Acquisitions
    /\ ecactus_client = init_client(acquisition)
    /\ op = "init" /\ amount = 0 /\ ret = TRUE /\ why = "ok"
    /\ pre = [soc |-> Lit(5, 10), power |-> 0, cycles |-> 0, reset |-> 0,
              date |-> 0, refused |-> NoRefusal, status |-> NoStatus]
    /\ prev = NoCharge
    /\ refused = NoRefusal
    /\ api_called = FALSE
    /\ seen = NoStatus
    /\ neg_seen = FALSE

\* no function of price_data.py is run beside the Battery
PriceIdle ==
    /\ price_op = "init"
    /\ now = Midnight
    /\ forecast_hours = 0
    /\ random_seed = 0
    /\ prices = <<>>
    /\ available = FALSE

Init == BatteryInit /\ PriceIdle

\* ----------------------------------------------------------------- actions
\* what a finished call leaves behind: the fields, and the record of the call
\* (date: the date the call read first; status: the first answer it got)
Finish(name, amt, res, date, status) ==
    /\ current_soc' = res.b.soc
    /\ current_power' = res.b.power
    /\ daily_cycles' = res.b.cycles
    /\ last_cycle_reset' = res.b.reset
    /\ api_called' = res.b.api
    /\ seen' = res.b.seen
    /\ op' = name /\ amount' = amt /\ ret' = res.ret /\ why' = res.why
    /\ pre' = [soc |-> current_soc, power |-> current_power,
               cycles |-> daily_cycles, reset |-> last_cycle_reset,
               date |-> date, refused |-> refused, status |-> status]
    /\ prev' = IF /\ name = "discharge" /\ res.ret = TRUE
                  /\ op = "charge" /\ ret = TRUE /\ amount = amt
               THEN [valid |-> TRUE, soc |-> pre.soc,
                     cycles |-> pre.cycles, reset |-> pre.reset]
               ELSE NoCharge
    /\ refused' =
          LET r == IF res.b.reset # last_cycle_reset THEN NoRefusal ELSE refused
          IN  IF name \in {"charge", "discharge"} /\ res.why = "max"
              THEN IF r = NoRefusal \/ Abs(amt) < r THEN Abs(amt) ELSE r
              ELSE r
    /\ neg_seen' = (neg_seen \/ amt < 0)
    /\ UNCHANGED <<cfgvars, pricevars>>

\* what the provider can answer: nothing is asked of an absent provider
StatusAnswers == IF ecactus_client THEN Statuses ELSE {NoStatus}
SuccessAnswers == IF ecactus_client THEN BOOLEAN ELSE {TRUE}

\* what the clock can answer: the date of the last reset or a later one, and
\* midnight may pass between the two reads of one call
DatesFrom(d) == {e \in 0 .. MaxDay : e = d \/ e = d + 1}

\* one call of charge(amt), over everything the clock and the provider can
\* answer during it; the date recorded is the one can_complete_cycles read
\* (none is read when the SoC check fails)
ChargeOutcomes(amt) ==
    {[res |-> charge(Self, amt, s1, d1, success, d2, s2),
      date |-> IF can_charge(Self, amt, s1).ret THEN d1 ELSE last_cycle_reset,
      status |-> s1] :
        <<s1, d1, success, d2, s2>> \in
            {t \in StatusAnswers \X DatesFrom(last_cycle_reset) \X SuccessAnswers
                   \X (0 .. MaxDay) \X StatusAnswers : t[4] \in DatesFrom(t[2])}}

DischargeOutcomes(amt) ==
    {[res |-> discharge(Self, amt, s1, d1, success, d2, s2),
      date |-> IF can_discharge(Self, amt, s1).ret THEN d1 ELSE last_cycle_reset,
      status |-> s1] :
        <<s1, d1, success, d2, s2>> \in
            {t \in StatusAnswers \X DatesFrom(last_cycle_reset) \X SuccessAnswers
                   \X (0 .. MaxDay) \X StatusAnswers : t[4] \in DatesFrom(t[2])}}

Charge ==
    \E amt \in Amounts : \E o \in ChargeOutcomes(amt) :
        Finish("charge", amt, o.res, o.date, o.status)

Discharge ==
    \E amt \in Amounts : \E o \in DischargeOutcomes(amt) :
        Finish("discharge", amt, o.res, o.date, o.status)

CanCharge ==
    \E amt \in Amounts, s1 \in StatusAnswers :
        Finish("can_charge", amt, can_charge(Self, amt, s1), last_cycle_reset, s1)

CanDischarge ==
    \E amt \in Amounts, s1 \in StatusAnswers :
        Finish("can_discharge", amt, can_discharge(Self, amt, s1),
               last_cycle_reset, s1)

CanCompleteCycles ==
    \E amt \in Amounts, d1 \in DatesFrom(last_cycle_reset) :
        Finish("can_complete_cycles", amt, can_complete_cycles(Self, amt, d1),
               d1, NoStatus)

GetRemainingCycles ==
    \E d1 \in DatesFrom(last_cycle_reset) :
        Finish("get_remaining_cycles", 0, get_remaining_cycles(Self, d1),
               d1, NoStatus)

GetAvailableCapacity ==
    \E s1 \in StatusAnswers :
        Finish("get_available_capacity", 0, get_available_capacity(Self, s1),
               last_cycle_reset, s1)

GetCurrentEnergy ==
    \E s1 \in StatusAnswers :
        Finish("get_current_energy", 0, get_current_energy(Self, s1),
               last_cycle_reset, s1)

GetCurrentPower ==
    \E s1 \in StatusAnswers, t \in Timestamps :
    \E s2 \in (IF s1.present THEN {s1} ELSE StatusAnswers) :
        Finish("get_current_power", 0,
               get_current_power(Self, s1, t[1], t[2], s2), last_cycle_reset, s1)

\* the functions of a timestamp: they return a value and touch no field
Pure(name, value) ==
    Finish(name, 0, [b |-> Self, ret |-> value, why |-> "ok"],
           last_cycle_reset, NoStatus)

GetSeasonalFactor ==
    \E month \in Months : Pure("get_seasonal_factor", get_seasonal_factor(month))

GetDailyConsumptionForDate ==
    \E date \in Dates :
        Pure("get_daily_consumption_for_date", get_daily_consumption_for_date(date))

GetHourlyConsumption ==
    \E t \in Timestamps :
        Pure("get_hourly_consumption", get_hourly_consumption(t[1], t[2]))

GetConsumptionConfidenceIntervals ==
    \E date \in Dates :
        Pure("get_consumption_confidence_intervals",
             get_consumption_confidence_intervals(date))

GetEffectivePrice ==
    \E base_price \in BasePrices, hour \in Hours :
        Pure("get_effective_price", get_effective_price(base_price, hour))

Next ==
    \/ Charge
    \/ Discharge
    \/ CanCharge
    \/ CanDischarge
    \/ CanCompleteCycles
    \/ GetRemainingCycles
    \/ GetAvailableCapacity
    \/ GetCurrentEnergy
    \/ GetCurrentPower
    \/ GetSeasonalFactor
    \/ GetDailyConsumptionForDate
    \/ GetHourlyConsumption
    \/ GetConsumptionConfidenceIntervals
    \/ GetEffectivePrice

Spec == Init /\ [][Next]_vars

\* ------------------------------------------- the functions of price_data.py
\* They share no state with the Battery.  Each behaviour draws one argument,
\* one clock reading and one random seed, and applies one function to them.
ForecastHours == ((0 - 1) .. MaxForecastHours) \cup {50}

PriceInit ==
    /\ BatteryInit /\ capacity = 5 /\ acquisition = "ValueError"
    /\ price_op = "init"
    /\ now \in Clock
    /\ forecast_hours \in ForecastHours
    /\ random_seed \in Seeds
    /\ prices = <<>>
    /\ available = FALSE

GetDayAheadPrices ==
    /\ price_op = "init"
    /\ price_op' = "get_day_ahead_prices"
    /\ prices' = get_day_ahead_prices(forecast_hours, now, random_seed)
    /\ UNCHANGED <<now, forecast_hours, random_seed, available, cfgvars, batvars, histvars>>

IsPricesAvailableForTomorrow ==
    /\ price_op = "init"
    /\ price_op' = "is_prices_available_for_tomorrow"
    /\ available' = is_prices_available_for_tomorrow(now)
    /\ UNCHANGED <<now, forecast_hours, random_seed, prices, cfgvars, batvars, histvars>>

PriceNext ==
    \/ GetDayAheadPrices
    \/ IsPricesAvailableForTomorrow

PriceSpec == PriceInit /\ [][PriceNext]_vars

\* ------------------------------------------------------------------ claims
\* The last call is described by op, amount, ret and why, and pre holds the
\* fields it started from.  The checks of charge and discharge are restated
\* here from those values.

IsTransfer == op \in {"charge", "discharge"}

\* amount / capacity, |amount| / capacity
AmountFraction == FDiv(FromInt(amount), FromInt(capacity))
CycleFraction == FDiv(FromInt(Abs(amount)), FromInt(capacity))

\* the SoC-bound check of the last call fails on the fields it started from
SocCheckFails ==
    \/ op = "charge" /\ FAdd(pre.soc, AmountFraction) > max_soc
    \/ op = "discharge" /\ FSub(pre.soc, AmountFraction) < min_soc

\* the counter as the budget check sees it on the date it read, and the total
\* the check compares with the bounds
CyclesSeen == IF pre.date > pre.reset THEN 0 ELSE pre.cycles
NewCycles == FAdd(CyclesSeen, CycleFraction)
CycleCheckFails == NewCycles < min_daily_cycles \/ NewCycles > max_daily_cycles

FieldsUnchanged ==
    /\ current_soc = pre.soc
    /\ current_power = pre.power
    /\ daily_cycles = pre.cycles
    /\ last_cycle_reset = pre.reset

\* C1 as stated: without a provider, a charge or discharge that fails the SoC
\* check or the cycle-budget check returns False and leaves all four fields as
\* they were, whatever the date.
C1_FailedCallMutatesNothing ==
    (~ecactus_client /\ IsTransfer /\ (SocCheckFails \/ CycleCheckFails))
        => (ret = FALSE /\ FieldsUnchanged)

\* C1 amended: without a provider, such a call returns False and leaves
\* current_soc and _current_power as they were; _daily_cycles and
\* _last_cycle_reset are as they were too, unless the SoC check passed and the
\* date read is later than _last_cycle_reset: then the lazy reset of
\* can_complete_cycles has set _daily_cycles to 0 and _last_cycle_reset to
\* that date.
C1_FailedCallKeepsSocAndResetsLazily ==
    (~ecactus_client /\ IsTransfer /\ (SocCheckFails \/ CycleCheckFails))
        => /\ ret = FALSE
           /\ current_soc = pre.soc
           /\ current_power = pre.power
           /\ IF ~SocCheckFails /\ pre.date > pre.reset
              THEN daily_cycles = 0 /\ last_cycle_reset = pre.date
              ELSE daily_cycles = pre.cycles /\ last_cycle_reset = pre.reset

\* a charge passed the SoC check on a new day and failed the budget check:
\* it returned False and the counter was reset
C1_Witness ==
    /\ ~ecactus_client /\ op = "charge" /\ ret = FALSE
    /\ ~SocCheckFails /\ CycleCheckFails
    /\ pre.date > pre.reset /\ pre.cycles > 0
    /\ daily_cycles = 0 /\ last_cycle_reset = pre.date

\* C2: without a provider and with min_soc <= 0.5 <= max_soc, as long as only
\* non-negative amounts have been passed, min_soc <= current_soc <= max_soc.
C2_SocWithinBounds ==
    (~ecactus_client /\ ~neg_seen /\ min_soc <= Lit(5, 10) /\ Lit(5, 10) <= max_soc)
        => (min_soc <= current_soc /\ current_soc <= max_soc)

\* a successful charge of a positive amount has brought the SoC to max_soc
C2_Witness ==
    /\ ~ecactus_client /\ ~neg_seen
    /\ op = "charge" /\ ret = TRUE /\ amount > 0
    /\ current_soc = max_soc /\ pre.soc < max_soc

\* C3 as stated: a charge with current_soc + amount/capacity > max_soc, or a
\* discharge with current_soc - amount/capacity < min_soc, returns False and
\* mutates nothing (with or without a provider).
C3_SocRejectionAlways ==
    (IsTransfer /\ SocCheckFails) => (ret = FALSE /\ FieldsUnchanged)

\* what the refresh of can_charge / can_discharge leaves in current_soc and
\* _current_power: the provider's report when there is a provider and it
\* reports, the fields as they were otherwise
SocSeen ==
    IF ecactus_client /\ pre.status.present THEN pre.status.current_soc ELSE pre.soc
PowerSeen ==
    IF ecactus_client /\ pre.status.present THEN pre.status.current_power ELSE pre.power

\* C3 amended: the bound is checked on current_soc as the refresh of
\* can_charge / can_discharge leaves it (with a provider that reports, the
\* reported SoC).  When that SoC + amount/capacity > max_soc (charge) or that
\* SoC - amount/capacity < min_soc (discharge), the call returns False and
\* changes nothing but what the refresh changed: without a provider nothing
\* at all, and never _daily_cycles or _last_cycle_reset, whatever budget
\* remains.
C3_SocRejectionAfterRefresh ==
    (IsTransfer /\ (\/ op = "charge" /\ FAdd(SocSeen, AmountFraction) > max_soc
                    \/ op = "discharge" /\ FSub(SocSeen, AmountFraction) < min_soc))
        => /\ ret = FALSE
           /\ current_soc = SocSeen
           /\ current_power = PowerSeen
           /\ daily_cycles = pre.cycles
           /\ last_cycle_reset = pre.reset

\* a charge was rejected on the SoC bound alone: its amount fitted the day's
\* cycle budget, usage was on the counter, and nothing changed
C3_Witness ==
    /\ ~ecactus_client /\ op = "charge" /\ ret = FALSE /\ SocCheckFails
    /\ min_daily_cycles <= FAdd(pre.cycles, CycleFraction)
    /\ FAdd(pre.cycles, CycleFraction) <= max_daily_cycles
    /\ pre.cycles > 0

\* the last call ran without a lazy reset, after some charge or discharge of
\* the same day had been refused for the cycle maximum
AfterRefusal ==
    /\ IsTransfer
    /\ pre.refused # NoRefusal
    /\ last_cycle_reset = pre.reset

\* C4 as stated: once a charge or discharge has been refused for the cycle
\* maximum, every further charge or discharge of a positive amount returns
\* False until the lazy reset.
C4_AnyAmountRefusedAfterRefusal ==
    (AfterRefusal /\ amount > 0) => ret = FALSE

\* C4 amended: once a charge or discharge of some amount has been refused for
\* the cycle maximum, every further charge or discharge of a positive amount
\* at least as large returns False until the lazy reset.
C4_LargerAmountRefusedAfterRefusal ==
    (AfterRefusal /\ amount > 0 /\ amount >= pre.refused) => ret = FALSE

\* a positive amount no smaller than a refused one passed the SoC check and
\* was refused for the cycle maximum again
C4_Witness ==
    /\ AfterRefusal /\ amount > 0 /\ amount >= pre.refused
    /\ ret = FALSE /\ why = "max"

\* the lazy reset as the last call met it
LazyResetOnly ==
    IF pre.date > pre.reset
    THEN daily_cycles = 0 /\ last_cycle_reset = pre.date
    ELSE daily_cycles = pre.cycles /\ last_cycle_reset = pre.reset

\* C5 as stated: with a provider, when update_battery_settings returns failure
\* the call returns False and all four fields are as before the call.
C5_ProviderFailureMutatesNothing ==
    (ecactus_client /\ IsTransfer /\ why = "provider")
        => (ret = FALSE /\ FieldsUnchanged)

\* C5 amended: with a provider, when update_battery_settings returns failure
\* the call returns False, records no cycle usage and makes no further
\* refresh: current_soc and _current_power are what the refresh of
\* can_charge / can_discharge left (the values the provider reported, the old
\* ones if it reported none), and _daily_cycles and _last_cycle_reset changed
\* only by the lazy reset of can_complete_cycles.
C5_ProviderFailureKeepsRefreshOnly ==
    (ecactus_client /\ IsTransfer /\ why = "provider")
        => /\ ret = FALSE
           /\ IF pre.status.present
              THEN /\ current_soc = pre.status.current_soc
                   /\ current_power = pre.status.current_power
              ELSE current_soc = pre.soc /\ current_power = pre.power
           /\ LazyResetOnly

\* the provider refused a command whose checks had passed, after a refresh
\* that changed the SoC
C5_Witness ==
    /\ ecactus_client /\ IsTransfer /\ why = "provider" /\ ret = FALSE
    /\ pre.status.present /\ current_soc # pre.soc

\* C6: can_complete_cycles(amount) is true exactly when min_daily_cycles <=
\* _daily_cycles + |amount|/capacity <= max_daily_cycles, the counter taken
\* after the lazy reset; so a charge or discharge that passes the SoC check
\* and stays under the maximum but below min_daily_cycles is rejected.
C6_MinimumCycleFloor ==
    /\ op = "can_complete_cycles"
          => (ret = (min_daily_cycles <= NewCycles /\ NewCycles <= max_daily_cycles))
    /\ (IsTransfer /\ (IF ecactus_client THEN why # "soc" ELSE ~SocCheckFails)
            /\ NewCycles < min_daily_cycles)
          => ret = FALSE
    /\ (IsTransfer /\ ret = TRUE)
          => (min_daily_cycles <= NewCycles /\ NewCycles <= max_daily_cycles)

\* a charge within the SoC bounds and under the cycle maximum was rejected
\* for leaving the day's cycles below min_daily_cycles
C6_Witness ==
    /\ ~ecactus_client /\ op = "charge" /\ amount > 0 /\ ret = FALSE
    /\ ~SocCheckFails
    /\ NewCycles < min_daily_cycles /\ NewCycles <= max_daily_cycles

\* C7: the counter is reset, and _last_cycle_reset moved, only inside a call
\* that reaches can_complete_cycles, _update_cycles or get_remaining_cycles
\* and reads a later date; _last_cycle_reset never decreases; without a reset
\* the counter is kept, or grown by the usage of a successful call; after a
\* reset it is 0, or exactly the usage of the successful call that met the
\* new day, never the previous day's total plus that usage.
C7_LazyDailyReset ==
    /\ last_cycle_reset >= pre.reset
    /\ last_cycle_reset # pre.reset
          => /\ op \in {"charge", "discharge", "can_complete_cycles",
                        "get_remaining_cycles"}
             /\ IsTransfer => (pre.date > pre.reset \/ ret = TRUE)
             /\ ~IsTransfer => last_cycle_reset = pre.date
             /\ daily_cycles = IF IsTransfer /\ ret = TRUE
                               THEN FAdd(0, CycleFraction) ELSE 0
    /\ last_cycle_reset = pre.reset
          => /\ pre.date = pre.reset
             /\ daily_cycles = IF IsTransfer /\ ret = TRUE
                               THEN FAdd(pre.cycles, CycleFraction)
                               ELSE pre.cycles

\* a successful charge met a new day with usage on the counter: the counter
\* now holds the usage of this charge alone
C7_Witness ==
    /\ op = "charge" /\ ret = TRUE /\ amount > 0
    /\ last_cycle_reset > pre.reset /\ pre.cycles > 0
    /\ daily_cycles = CycleFraction

\* the spacing of the floats at the magnitude of x
Ulp(x) == 2 ^ Expo(Abs(x), 1)
Larger(x, y) == IF x >= y THEN x ELSE y

\* C8 as stated: without a provider, after charge(amount) and the discharge
\* (amount) that follows it at once, both True, current_soc equals its value
\* before the charge and, absent a rollover, _daily_cycles has grown by
\* 2 * |amount| / capacity.
C8_RoundTripExact ==
    (~ecactus_client /\ prev.valid)
        => /\ current_soc = prev.soc
           /\ last_cycle_reset = prev.reset
                 => daily_cycles - prev.cycles = 2 * CycleFraction

\* C8 amended: ... current_soc equals its value before the charge up to the
\* rounding of the two floating-point additions (it differs by at most one
\* unit in the last place of the larger of the SoC after the charge and the
\* SoC after the discharge), and absent a rollover _daily_cycles has grown by
\* 2 * |amount| / capacity up to the rounding of its two additions.
C8_RoundTripWithinRounding ==
    (~ecactus_client /\ prev.valid)
        => /\ Abs(current_soc - prev.soc)
                 <= Ulp(Larger(Abs(pre.soc), Abs(current_soc)))
           /\ last_cycle_reset = prev.reset
                 => Abs(daily_cycles - (prev.cycles + 2 * CycleFraction))
                        <= Ulp(daily_cycles)

\* a round trip of a positive amount within one day that did not return the
\* SoC to the float it started from
C8_Witness ==
    /\ ~ecactus_client /\ prev.valid /\ amount > 0
    /\ last_cycle_reset = prev.reset
    /\ current_soc # prev.soc

\* C9: when get_ecactus_client() fails at construction the Battery exists with
\* ecactus_client None, and no call ever reaches get_battery_status or
\* update_battery_settings.
C9_ProviderFallback ==
    acquisition = "ValueError" => (~ecactus_client /\ ~api_called)

\* after a failed acquisition a charge went through on the simulated state
C9_Witness ==
    /\ acquisition = "ValueError" /\ op = "charge" /\ ret = TRUE
    /\ current_soc # pre.soc

QueryOps == {"get_available_capacity", "get_current_energy", "get_current_power",
             "can_charge", "can_discharge", "can_complete_cycles",
             "get_remaining_cycles"}
ConsumptionOps == {"get_seasonal_factor", "get_daily_consumption_for_date",
                   "get_hourly_consumption",
                   "get_consumption_confidence_intervals", "get_effective_price"}

\* C10: without a provider the queries leave current_soc and _current_power
\* as they were and the consumption functions leave every field as it was;
\* current_soc changes only in a successful charge or discharge.
C10_QueriesKeepSoc ==
    ~ecactus_client
        => /\ op \in QueryOps
                 => (current_soc = pre.soc /\ current_power = pre.power)
           /\ op \in ConsumptionOps => FieldsUnchanged
           /\ current_soc # pre.soc => (IsTransfer /\ ret = TRUE)

\* a query met a new day and reset the counter, and the SoC, away from its
\* initial value, stayed as it was
C10_Witness ==
    /\ ~ecactus_client /\ op = "get_remaining_cycles"
    /\ last_cycle_reset > pre.reset /\ pre.cycles > 0
    /\ current_soc # Lit(5, 10) /\ current_soc = pre.soc

\* C11: get_remaining_cycles() returns max_daily_cycles - _daily_cycles, the
\* counter taken after the lazy reset; so a call that reads a date later than
\* _last_cycle_reset returns exactly max_daily_cycles, whatever the counter
\* held from the day before.
C11_RemainingCyclesAfterReset ==
    op = "get_remaining_cycles"
        => /\ ret = FSub(max_daily_cycles, CyclesSeen)
           /\ ret = FSub(max_daily_cycles, daily_cycles)
           /\ pre.date > pre.reset => ret = max_daily_cycles

\* the first call of a new day, with usage on the counter from the day
\* before, returned the whole budget
C11_Witness ==
    /\ op = "get_remaining_cycles" /\ pre.date > pre.reset /\ pre.cycles > 0
    /\ ret = max_daily_cycles /\ daily_cycles = 0

\* C14: without a provider, a charge(amount) that returns True has set
\* current_soc to current_soc + amount/capacity and _current_power to amount,
\* a discharge(amount) that returns True has set current_soc to current_soc -
\* amount/capacity and _current_power to -amount, and either has added
\* |amount|/capacity to _daily_cycles once (to the counter as the lazy reset
\* left it: to 0 when the call met a new day).  The sums are the program's
\* float additions.
C14_SuccessfulOperationEffect ==
    (~ecactus_client /\ IsTransfer /\ ret = TRUE)
        => /\ op = "charge"
                 => /\ current_soc = FAdd(pre.soc, AmountFraction)
                    /\ current_power = FromInt(amount)
           /\ op = "discharge"
                 => /\ current_soc = FSub(pre.soc, AmountFraction)
                    /\ current_power = FromInt(0 - amount)
           /\ daily_cycles =
                 FAdd(IF last_cycle_reset # pre.reset THEN 0 ELSE pre.cycles,
                      CycleFraction)

\* a discharge of a positive amount succeeded on a day that already had
\* usage: the SoC fell, the power is negative and the counter grew
C14_Witness ==
    /\ ~ecactus_client /\ op = "discharge" /\ ret = TRUE /\ amount > 0
    /\ pre.cycles > 0 /\ last_cycle_reset = pre.reset
    /\ current_soc < pre.soc /\ current_power < 0 /\ daily_cycles > pre.cycles

\* C15: with a provider, a refresh sets current_soc and _current_power to
\* the values the provider reports, unclamped, and leaves both as they are
\* when the provider reports no status; so after any call the two fields hold
\* the last report of the call, or what they held before it if nothing was
\* reported.  A successful charge or discharge changes current_soc only
\* through its refreshes, never by amount/capacity.
C15_RefreshTakesProviderValues ==
    ecactus_client
        => /\ current_soc = IF seen.present THEN seen.current_soc
                             ELSE IF IsTransfer THEN SocSeen ELSE pre.soc
           /\ current_power = IF seen.present THEN seen.current_power
                               ELSE IF IsTransfer THEN PowerSeen ELSE pre.power

\* a charge succeeded with a provider and the refresh after it stored a
\* reported SoC above max_soc
C15_Witness ==
    /\ ecactus_client /\ op = "charge" /\ ret = TRUE /\ amount > 0
    /\ seen.present /\ current_soc = seen.current_soc /\ current_soc > max_soc

\* C16: for 0 <= min_daily_cycles <= max_daily_cycles, in every reachable
\* state, with or without a provider, also when the date rolls over between
\* the budget check and the recording inside one charge or discharge,
\* 0 <= _daily_cycles <= max_daily_cycles; hence get_remaining_cycles() is
\* never negative.
C16_CycleBudgetInvariant ==
    (0 <= min_daily_cycles /\ min_daily_cycles <= max_daily_cycles)
        => /\ 0 <= daily_cycles /\ daily_cycles <= max_daily_cycles
           /\ op = "get_remaining_cycles" => ret >= 0

\* a charge or discharge succeeded on a day with usage while midnight
\* passed between its budget check and its recording
C16_Witness ==
    /\ IsTransfer /\ ret = TRUE /\ amount # 0
    /\ pre.cycles > 0 /\ pre.date = pre.reset /\ last_cycle_reset > pre.date
    /\ daily_cycles > 0

\* C17: without a provider, with min_daily_cycles = 0.5 (the default),
\* min_soc > 0 and max_soc < 1, as long as only non-negative amounts are
\* passed no charge or discharge returns True, and current_soc stays 0.5 and
\* _daily_cycles stays 0, across date rollovers.
C17_DefaultFloorBlocksEverything ==
    (/\ ~ecactus_client /\ ~neg_seen
     /\ min_daily_cycles = Lit(5, 10) /\ min_soc > 0 /\ max_soc < FromInt(1))
        => /\ IsTransfer => ret = FALSE
           /\ current_soc = Lit(5, 10)
           /\ daily_cycles = 0

\* on a later day such a battery rejected, for the floor, a charge that
\* fitted the SoC bounds, having rejected a larger one on the SoC bound
C17_Witness ==
    /\ ~ecactus_client /\ ~neg_seen
    /\ min_daily_cycles = Lit(5, 10) /\ min_soc > 0 /\ max_soc < FromInt(1)
    /\ op = "charge" /\ amount > 0 /\ ret = FALSE /\ why = "min"
    /\ last_cycle_reset > 0

\* C18 as stated: without a provider and with min_soc <= 0.5 <= max_soc, for
\* every amount, zero and negative ones included, a charge or discharge that
\* returns True leaves min_soc <= current_soc <= max_soc.
C18_SocWithinBoundsAnySign ==
    (/\ ~ecactus_client /\ min_soc <= Lit(5, 10) /\ Lit(5, 10) <= max_soc
     /\ IsTransfer /\ ret = TRUE)
        => (min_soc <= current_soc /\ current_soc <= max_soc)

\* the hours passed since day 0, and the seconds passed since midnight
HourIndex(t) == t.day * 24 + t.hour
SecondOfDay(t) == (t.hour * 60 + t.minute) * 60 + t.second

\* C12: get_day_ahead_prices(forecast_hours) returns max(12, min(
\* forecast_hours, 36)) entries for every integer forecast_hours (36 for 50,
\* 12 for 5), one per consecutive hour from the current time truncated to
\* the hour, and every price returned is >= 0.05.
C12_DayAheadPricesShape ==
    price_op = "get_day_ahead_prices"
        => /\ Len(prices) = IF forecast_hours < 12 THEN 12
                             ELSE IF forecast_hours > 36 THEN 36
                             ELSE forecast_hours
           /\ forecast_hours = 50 => Len(prices) = 36
           /\ forecast_hours = 5 => Len(prices) = 12
           /\ \A i \in 1 .. Len(prices) :
                 /\ HourIndex(prices[i].date) = HourIndex(now) + (i - 1)
                 /\ prices[i].date.hour \in 0 .. 23
                 /\ prices[i].date.minute = 0
                 /\ prices[i].date.second = 0
                 /\ prices[i].date.microsecond = 0
                 /\ prices[i].price >= Lit(5, 100)

\* 50 hours asked late in an hour: 36 entries came back, from the start of
\* that hour into the next day, one price raised to the minimum and one
\* above it
C12_Witness ==
    /\ price_op = "get_day_ahead_prices" /\ forecast_hours = 50
    /\ now.minute = 59 /\ now.second = 59
    /\ Len(prices) = 36
    /\ prices[36].date.day = now.day + 1
    /\ \E i \in 1 .. Len(prices) : prices[i].price = Lit(5, 100)
    /\ \E i \in 1 .. Len(prices) : prices[i].price > Lit(5, 100)

\* C13: is_prices_available_for_tomorrow() returns true if and only if the
\* local time of day is at or after 13:00:00: false at 12:59, true at 13:00.
C13_AvailableFromThirteen ==
    price_op = "is_prices_available_for_tomorrow"
        => /\ available = (SecondOfDay(now) >= 13 * 3600)
           /\ (now.hour = 12 /\ now.minute = 59) => available = FALSE
           /\ (now.hour = 13 /\ now.minute = 0) => available = TRUE

\* asked at 13:00:00 sharp, the answer was true
C13_Witness ==
    /\ price_op = "is_prices_available_for_tomorrow"
    /\ now.hour = 13 /\ now.minute = 0 /\ now.second = 0 /\ now.microsecond = 0
    /\ available = TRUE

=============================================================================
